---- MODULE Spec2Model ----
(***************************************************************************)
(* A model of the GDAX order-book trader: the retry/pacing decorator       *)
(* (utils.py), the scheduler (gdax_trader.py), the strategy base class     *)
(* (strategy.py) and the order-book-imbalance strategy                     *)
(* (strategies/order_book_imbalance.py).                                   *)
(*                                                                         *)
(* Python values of mixed type are records with a "tag" field, so that     *)
(* None, False, exceptions and payloads can be compared with each other.   *)
(***************************************************************************)
EXTENDS Integers, Sequences, FiniteSets, TLC

VARIABLES
    \* --- harness of connection_retry -------------------------------------
    function,       \* the decorated function: its outcome on each attempt
    max_retries,    \* the decorator's max_retries argument
    result,         \* what the last call of wrapper() did
    \* --- strategies and exchange -----------------------------------------
    strategies,     \* GDAXTrader.strategies: the state of each strategy
    exchange,       \* the exchange's live orders and next order id
    clock,          \* the wall clock, in seconds
    last,           \* the last operation called on a strategy: its
                    \* arguments, what it returned or raised, its calls
    steps,          \* number of operations performed so far
    \* --- GDAXTrader.run ---------------------------------------------------
    pc,             \* where run() is: "run", "sleeping", "crashed"
    start_time,     \* the local start_time of run()
    sleep_time      \* the local sleep_time of run()

retryVars == <<function, max_retries, result>>
strategyVars == <<strategies, exchange, clock, last, steps>>
runVars == <<pc, start_time, sleep_time>>
vars == <<function, max_retries, result, strategies, exchange, clock, last,
          steps, pc, start_time, sleep_time>>

\* the value of a local computed once: Only({e : x \in {v}}) is e with x
\* bound to the value v
Only(S) == CHOOSE x \in S : TRUE

(***************************************************************************)
(* Python values                                                           *)
(***************************************************************************)
NoneV == [tag |-> "None"]
FalseV == [tag |-> "False"]
Exc(class, id) == [tag |-> "exc", class |-> class, id |-> id]

\* the outcome of one attempt of a decorated function
Return(v) == [kind |-> "return", value |-> v]
Raise(e) == [kind |-> "raise", value |-> e]

(***************************************************************************)
(* utils.py: connection_retry                                              *)
(***************************************************************************)
\* utils.py imports ConnectionError from requests.exceptions (line 5): the
\* classes the decorator retries on
TransientClasses == {"requests.ConnectionError", "JSONDecodeError"}

\* the locals of wrapper() before the loop, with the counts of the calls of
\* the decorated function and of time.sleep, and these calls in order
wrapperLocals ==
    [data |-> NoneV, retry |-> 0, connect_success |-> FALSE,
     connect_error |-> FalseV, calls |-> 0, sleeps |-> 0, raised |-> NoneV,
     trace |-> <<>>]

\* mutant: the loop retries on an exception of any class
RECURSIVE wrapperLoop_RetryAll(_, _, _)
wrapperLoop_RetryAll(fn, maxr, st) ==
    IF st.connect_success \/ ~(st.retry < maxr)
    THEN st
    ELSE LET out == fn[st.calls + 1]
             called == [st EXCEPT !.calls = @ + 1,
                                  !.trace = @ \o <<"attempt">>]
         IN  IF out.kind = "return"
             THEN wrapperLoop_RetryAll(fn, maxr,
                      [called EXCEPT !.data = out.value,
                                     !.connect_success = TRUE,
                                     !.retry = @ + 1, !.sleeps = @ + 1,
                                     !.trace = @ \o <<"sleep">>])
             ELSE wrapperLoop_RetryAll(fn, maxr,
                      [called EXCEPT !.connect_error = out.value,
                                     !.retry = @ + 1, !.sleeps = @ + 1,
                                     !.trace = @ \o <<"sleep">>])

\* mutant: the pacing sleep is skipped after an attempt that failed
RECURSIVE wrapperLoop_NoSleepOnError(_, _, _)
wrapperLoop_NoSleepOnError(fn, maxr, st) ==
    IF st.raised # NoneV \/ st.connect_success \/ ~(st.retry < maxr)
    THEN st
    ELSE LET out == fn[st.calls + 1]
             called == [st EXCEPT !.calls = @ + 1,
                                  !.trace = @ \o <<"attempt">>]
         IN  IF out.kind = "return"
             THEN wrapperLoop_NoSleepOnError(fn, maxr,
                      [called EXCEPT !.data = out.value,
                                     !.connect_success = TRUE,
                                     !.retry = @ + 1, !.sleeps = @ + 1,
                                     !.trace = @ \o <<"sleep">>])
             ELSE IF out.value.class \in TransientClasses
             THEN wrapperLoop_NoSleepOnError(fn, maxr,
                      [called EXCEPT !.connect_error = out.value,
                                     !.retry = @ + 1])
             ELSE [called EXCEPT !.raised = out.value]

\* the while loop of wrapper(): one attempt per turn
RECURSIVE wrapperLoop(_, _, _)
wrapperLoop(fn, maxr, st) ==
    IF st.raised # NoneV \/ st.connect_success \/ ~(st.retry < maxr)
    THEN st
    ELSE LET out == fn[st.calls + 1]
             called == [st EXCEPT !.calls = @ + 1,
                                  !.trace = @ \o <<"attempt">>]
         IN  IF out.kind = "return"
             THEN wrapperLoop(fn, maxr,
                      [called EXCEPT !.data = out.value,
                                     !.connect_success = TRUE,
                                     !.retry = @ + 1, !.sleeps = @ + 1,
                                     !.trace = @ \o <<"sleep">>])
             ELSE IF out.value.class \in TransientClasses
             THEN wrapperLoop(fn, maxr,
                      [called EXCEPT !.connect_error = out.value,
                                     !.retry = @ + 1, !.sleeps = @ + 1,
                                     !.trace = @ \o <<"sleep">>])
             \* any other exception leaves the loop at once
             ELSE [called EXCEPT !.raised = out.value]

\* mutant: the last failure is swallowed and the (empty) data returned
wrapper_NoRaise(fn, maxr) ==
    LET st == wrapperLoop(fn, maxr, wrapperLocals)
    IN  [calls |-> st.calls, sleeps |-> st.sleeps, raised |-> st.raised,
         returned |-> IF st.raised # NoneV THEN NoneV ELSE st.data,
         success |-> st.connect_success, trace |-> st.trace]

\* wrapper(): the loop, then the raise or the return.  "success" tells
\* whether an attempt of the decorated function returned.
wrapper(fn, maxr) ==
    LET st == wrapperLoop(fn, maxr, wrapperLocals)
    IN  IF st.raised # NoneV
        THEN [calls |-> st.calls, sleeps |-> st.sleeps, raised |-> st.raised,
              returned |-> NoneV, success |-> st.connect_success,
              trace |-> st.trace]
        ELSE IF st.retry = maxr /\ st.connect_error # FalseV
        THEN [calls |-> st.calls, sleeps |-> st.sleeps,
              raised |-> st.connect_error, returned |-> NoneV,
              success |-> st.connect_success, trace |-> st.trace]
        ELSE [calls |-> st.calls, sleeps |-> st.sleeps, raised |-> NoneV,
              returned |-> st.data, success |-> st.connect_success,
              trace |-> st.trace]

(***************************************************************************)
(* Numbers.  Decimal values are exact fractions n/d in lowest terms (the   *)
(* rounding of Decimal's 28 digits is not modelled); Decimal('NaN') is     *)
(* NaN.  A float literal of the source is tagged "float": Python refuses   *)
(* to add a float to a Decimal.                                            *)
(***************************************************************************)
Abs(x) == IF x < 0 THEN -x ELSE x

RECURSIVE GCD(_, _)
GCD(a, b) == IF b = 0 THEN a ELSE GCD(b, a % b)

\* the Decimal n/d, d # 0, in lowest terms with a positive denominator
Dec(n, d) ==
    LET g == GCD(Abs(n), Abs(d))
        sgn == IF d < 0 THEN -1 ELSE 1
    IN  [tag |-> "Decimal", n |-> sgn * (n \div g), d |-> Abs(d) \div g]

NaN == [tag |-> "NaN"]

DecAdd(x, y) == Dec(x.n * y.d + y.n * x.d, x.d * y.d)
DecSub(x, y) == Dec(x.n * y.d - y.n * x.d, x.d * y.d)
DecDiv(x, y) == Dec(x.n * y.d, x.d * y.n)
DecLess(x, y) == x.n * y.d < y.n * x.d

\* the result of a call: what it raised (or None) and what it returned
Ok(v) == [raised |-> NoneV, value |-> v]
Err(class) == [raised |-> Exc(class, 0), value |-> NoneV]

(***************************************************************************)
(* Dictionaries of the exchange API.  "keys" holds the keys present; the   *)
(* field of an absent key has a fixed default.                             *)
(***************************************************************************)
Dict(keys, id, price, created_at, status, done_reason, settled) ==
    [tag |-> "dict", keys |-> keys,
     id |-> IF "id" \in keys THEN id ELSE 0,
     price |-> IF "price" \in keys THEN price ELSE Dec(0, 1),
     created_at |-> IF "created_at" \in keys THEN created_at ELSE 0,
     status |-> IF "status" \in keys THEN status ELSE "",
     done_reason |-> IF "done_reason" \in keys THEN done_reason ELSE "",
     settled |-> IF "settled" \in keys THEN settled ELSE FALSE,
     side |-> ""]

\* the dictionary with the key 'side' added: "buy" or "sell"
WithSide(dict, side) ==
    [dict EXCEPT !.keys = @ \cup {"side"}, !.side = side]

(***************************************************************************)
(* strategy.py: Strategy                                                   *)
(***************************************************************************)
\* Strategy.__init__ followed by OBIStrategy.set_up
NewStrategy ==
    [accounts |-> <<>>, bid_orders |-> NoneV, ask_orders |-> NoneV,
     order |-> NoneV, order_book_imbalance |-> <<>>]

\* Strategy.next_data
next_data(s, accounts, bid_orders, ask_orders) ==
    [s EXCEPT !.accounts = accounts, !.bid_orders = bid_orders,
              !.ask_orders = ask_orders]

\* mutant: the first entry of the currency ends the search, whether its
\* balance can be read or not
RECURSIVE get_currency_balance_FirstCurrency(_, _)
get_currency_balance_FirstCurrency(accounts, currency) ==
    IF accounts = <<>> THEN NoneV
    ELSE LET account == Head(accounts)
         IN  IF "currency" \in account.keys /\ account.currency = currency
             THEN IF "balance" \in account.keys /\ ~account.text
                  THEN Dec(account.balance, 1)
                  ELSE NoneV
             ELSE get_currency_balance_FirstCurrency(Tail(accounts), currency)

\* Strategy.get_currency_balance: an entry without 'currency' (KeyError),
\* or of the currency but without 'balance' (KeyError) or with a balance
\* that is no number (InvalidOperation), raises inside the try and is
\* skipped
RECURSIVE get_currency_balance(_, _)
get_currency_balance(accounts, currency) ==
    IF accounts = <<>> THEN NoneV
    ELSE LET account == Head(accounts)
         IN  IF /\ "currency" \in account.keys
                /\ account.currency = currency
                /\ "balance" \in account.keys
                /\ ~account.text
             THEN Dec(account.balance, 1)
             ELSE get_currency_balance(Tail(accounts), currency)

(***************************************************************************)
(* strategies/order_book_imbalance.py: OBIStrategy                         *)
(***************************************************************************)
BUY_SIGNAL == "buy"
SELL_SIGNAL == "sell"
NoSignal == "None"
PERIOD == 30
MINIMUM_HOLD_TIME == 20
LIMIT_PADDING == [tag |-> "float", n |-> 1, d |-> 100]

\* gdax_trader.py: GDAXTrader.MAX_RETRIES
MAX_RETRIES == 5

\* the module never imports ConnectionError, so the name in its except
\* clauses is the builtin one; the trader raises the one of requests, which
\* is not a subclass of it
StrategyCaught == {"builtins.ConnectionError", "JSONDecodeError"}

RECURSIVE MaxPrice(_)
MaxPrice(rows) ==
    IF Len(rows) = 1 THEN rows[1].price
    ELSE LET m == MaxPrice(Tail(rows))
         IN  IF rows[1].price > m THEN rows[1].price ELSE m

RECURSIVE MinPrice(_)
MinPrice(rows) ==
    IF Len(rows) = 1 THEN rows[1].price
    ELSE LET m == MinPrice(Tail(rows))
         IN  IF rows[1].price < m THEN rows[1].price ELSE m

\* str(n) for a positive integer price n, as its sequence of digits
RECURSIVE Digits(_)
Digits(n) == IF n < 10 THEN <<n>> ELSE Append(Digits(n \div 10), n % 10)

\* a < b for two strings: the order of the first character that differs,
\* a proper prefix coming first
RECURSIVE StrLess(_, _)
StrLess(a, b) ==
    IF a = <<>> THEN b # <<>>
    ELSE IF b = <<>> THEN FALSE
    ELSE IF a[1] # b[1] THEN a[1] < b[1]
    ELSE StrLess(Tail(a), Tail(b))

\* max() and min() of a column of strings compare them as strings
RECURSIVE MaxText(_)
MaxText(rows) ==
    IF Len(rows) = 1 THEN rows[1].price
    ELSE LET m == MaxText(Tail(rows))
         IN  IF StrLess(Digits(m), Digits(rows[1].price)) THEN rows[1].price
             ELSE m

RECURSIVE MinText(_)
MinText(rows) ==
    IF Len(rows) = 1 THEN rows[1].price
    ELSE LET m == MinText(Tail(rows))
         IN  IF StrLess(Digits(rows[1].price), Digits(m)) THEN rows[1].price
             ELSE m

\* Decimal(frame['price'].max()) / .min(): subscripting None is a TypeError,
\* the maximum of an empty column is nan; in a frame whose columns hold
\* strings ("text") the price n of a row stands for the string str(n)
ColumnBest(frame, signal) ==
    IF frame = NoneV THEN Err("TypeError")
    ELSE IF frame.rows = <<>> THEN Ok(NaN)
    ELSE IF frame.text
    THEN IF signal = BUY_SIGNAL THEN Ok(Dec(MaxText(frame.rows), 1))
         ELSE Ok(Dec(MinText(frame.rows), 1))
    ELSE IF signal = BUY_SIGNAL THEN Ok(Dec(MaxPrice(frame.rows), 1))
    ELSE Ok(Dec(MinPrice(frame.rows), 1))

\* OBIStrategy._get_market_price
get_market_price(s, signal) ==
    IF signal = BUY_SIGNAL THEN ColumnBest(s.bid_orders, BUY_SIGNAL)
    ELSE IF signal = SELL_SIGNAL THEN ColumnBest(s.ask_orders, SELL_SIGNAL)
    ELSE IF s.order # NoneV /\ "price" \in s.order.keys
    THEN Ok(s.order.price)
    ELSE Ok(NoneV)

delta == 2
beta == 1

\* one side's loop of _get_trade_signal: the sum over the rows of
\* size / (delta * (|price - best| / best) + beta); 0 for no row
RECURSIVE SideQty(_, _)
SideQty(rows, best) ==
    IF rows = <<>> THEN Dec(0, 1)
    ELSE DecAdd(Dec(rows[1].size * best,
                    delta * Abs(rows[1].price - best) + beta * best),
                SideQty(Tail(rows), best))

\* mutant: the bid quantity counts twice in the numerator
Imbalance_BidTwice(bid_qty, ask_qty) ==
    DecDiv(DecSub(DecAdd(bid_qty, bid_qty), ask_qty), DecAdd(bid_qty, ask_qty))

\* (bid_qty - ask_qty) / (bid_qty + ask_qty), for a nonzero sum
Imbalance(bid_qty, ask_qty) ==
    DecDiv(DecSub(bid_qty, ask_qty), DecAdd(bid_qty, ask_qty))

\* OBIStrategy._get_trade_signal.  pandas is never imported as pd, so the
\* threshold line raises NameError once the history is longer than PERIOD.
get_trade_signal(s) ==
    LET best_bid == get_market_price(s, BUY_SIGNAL)
        best_ask == get_market_price(s, SELL_SIGNAL)
    IN  IF best_bid.raised # NoneV
        THEN [raised |-> best_bid.raised, value |-> NoneV, s |-> s]
        ELSE IF best_ask.raised # NoneV
        THEN [raised |-> best_ask.raised, value |-> NoneV, s |-> s]
        \* row['price'] - best_bid: a string minus a Decimal
        ELSE IF \/ s.bid_orders.text /\ s.bid_orders.rows # <<>>
                \/ s.ask_orders.text /\ s.ask_orders.rows # <<>>
        THEN [raised |-> Exc("TypeError", 0), value |-> NoneV, s |-> s]
        ELSE
        LET bid_qty == IF s.bid_orders.rows = <<>> THEN Dec(0, 1)
                       ELSE SideQty(s.bid_orders.rows, best_bid.value.n)
            ask_qty == IF s.ask_orders.rows = <<>> THEN Dec(0, 1)
                       ELSE SideQty(s.ask_orders.rows, best_ask.value.n)
            total == DecAdd(bid_qty, ask_qty)
        IN  IF total.n = 0
            THEN [raised |-> Exc("ZeroDivisionError", 0), value |-> NoneV,
                  s |-> s]
            ELSE
            LET order_book_imbalance == Imbalance(bid_qty, ask_qty)
                s2 == [s EXCEPT !.order_book_imbalance =
                                    Append(@, order_book_imbalance)]
            IN  IF Len(s2.order_book_imbalance) > PERIOD
                THEN [raised |-> Exc("NameError", 0), value |-> NoneV,
                      s |-> s2]
                ELSE [raised |-> NoneV, value |-> NoSignal, s |-> s2]

(***************************************************************************)
(* The exchange, seen through the gdax client.  It keeps the set of the    *)
(* orders it has accepted and that are still live, and the next order id.  *)
(* What the client does on each attempt of a call is an input ("oracle"):  *)
(* "fails" attempts raise an exception of class "class", the following     *)
(* ones return the exchange's response.                                    *)
(***************************************************************************)
NewExchange == [live |-> {}, next_id |-> 1]

ClientScript(orc, resp) ==
    [i \in 1..MAX_RETRIES |->
        IF i <= orc.fails THEN Raise(Exc(orc.class, i)) ELSE Return(resp)]

\* the response to get_order for the tracked order: its id, side, price
\* and creation time, and the fields of "shape"
PollResponse(order, shape) ==
    [Dict((order.keys \cap {"id", "price", "created_at"})
             \cup (IF shape.message THEN {"message"} ELSE {})
             \cup (IF shape.status # "" THEN {"status"} ELSE {})
             \cup (IF shape.done_reason # "" THEN {"done_reason"} ELSE {})
             \cup (IF shape.settled # "absent" THEN {"settled"} ELSE {}),
          order.id, order.price, order.created_at, shape.status,
          shape.done_reason, shape.settled = "True")
     EXCEPT !.keys = @ \cup (order.keys \cap {"side"}), !.side = order.side]

\* a response that shows the order still resting on the book
ShapeLive(shape) ==
    /\ ~shape.message
    /\ shape.done_reason = ""
    /\ shape.status \in {"", "open"}

\* the response to buy/sell: the accepted order, or an error dictionary
PlaceResponse(ex, accept, side, price, now) ==
    IF accept
    THEN WithSide(Dict({"id", "price", "created_at", "status", "settled"},
                       ex.next_id, price, now, "pending", "", FALSE), side)
    ELSE Dict({"message"}, 0, Dec(0, 1), 0, "", "", FALSE)

CancelResponse == Dict({}, 0, Dec(0, 1), 0, "", "", FALSE)

\* the calls of one strategy operation: how often each trader method was
\* invoked, the attempts made on the client and the pacing sleeps (their
\* numbers, and the two in order), the response polled (or what get_order
\* raised, and whether an attempt had been answered), the id sent with the
\* cancel request, the order requested and what buy or sell returned to
\* the strategy; for a tick, the step that next() ran after the poll
\* ("reprice", "place", or "" when it ran none)
NoCalls ==
    [get_order |-> 0, cancel_order |-> 0, buy |-> 0, sell |-> 0,
     attempts |-> 0, sleeps |-> 0, trace |-> <<>>, resp |-> NoneV,
     cancel_id |-> 0, cancel_answered |-> FALSE, step |-> "",
     placed |-> NoneV, answer |-> NoneV, poll_raised |-> NoneV,
     poll_answered |-> FALSE]

\* the outcome of a strategy method: the strategy and the exchange after
\* it, what it returned ("True", "False", "None") or raised, and its calls
Outcome(s, ex, ret, raised, calls) ==
    [s |-> s, ex |-> ex, ret |-> ret, raised |-> raised, calls |-> calls]

AddCalls(a, b) ==
    [get_order |-> a.get_order + b.get_order,
     cancel_order |-> a.cancel_order + b.cancel_order,
     buy |-> a.buy + b.buy, sell |-> a.sell + b.sell,
     attempts |-> a.attempts + b.attempts, sleeps |-> a.sleeps + b.sleeps,
     trace |-> a.trace \o b.trace,
     step |-> IF b.step # "" THEN b.step ELSE a.step,
     resp |-> IF b.resp # NoneV THEN b.resp ELSE a.resp,
     cancel_id |-> IF b.cancel_order > 0 THEN b.cancel_id ELSE a.cancel_id,
     cancel_answered |-> a.cancel_answered \/ b.cancel_answered,
     placed |-> IF b.placed # NoneV THEN b.placed ELSE a.placed,
     answer |-> IF b.answer # NoneV THEN b.answer ELSE a.answer,
     poll_raised |-> IF b.get_order > 0 THEN b.poll_raised ELSE a.poll_raised,
     poll_answered |-> IF b.get_order > 0 THEN b.poll_answered
                       ELSE a.poll_answered]

\* mutant: a completed order is cleared whether settled or not
TerminalResponse_DoneOnly(order) ==
    \/ "message" \in order.keys
    \/ "done_reason" \in order.keys /\ order.done_reason = "cancelled"
    \/ "status" \in order.keys /\ order.status = "rejected"
    \/ "status" \in order.keys /\ order.status = "done"

\* the condition of _track_order under which the order is cleared
TerminalResponse(order) ==
    LET cancelled ==
            "done_reason" \in order.keys /\ order.done_reason = "cancelled"
        rejected == "status" \in order.keys /\ order.status = "rejected"
        is_done == "status" \in order.keys /\ order.status = "done"
        is_settled == "settled" \in order.keys /\ order.settled = TRUE
        order_error == "message" \in order.keys
    IN  order_error \/ cancelled \/ rejected \/ (is_done /\ is_settled)

\* OBIStrategy._track_order
track_order(s, ex, orc) ==
    IF s.order = NoneV \/ "id" \notin s.order.keys
    THEN Outcome(s, ex, "False", NoneV, NoCalls)
    ELSE
    LET resp == PollResponse(s.order, orc.shape)
        w == wrapper(ClientScript(orc, resp), MAX_RETRIES)
        \* an answer that shows the order finished means the exchange has
        \* taken it off the book
        ex2 == IF w.success /\ ~ShapeLive(orc.shape)
               THEN [ex EXCEPT !.live = @ \ {s.order.id}] ELSE ex
        calls == [NoCalls EXCEPT !.get_order = 1, !.attempts = w.calls,
                                 !.sleeps = w.sleeps, !.trace = w.trace,
                                 !.resp = w.returned,
                                 !.poll_raised = w.raised,
                                 !.poll_answered = w.success]
    IN  IF w.raised # NoneV
        THEN IF w.raised.class \in StrategyCaught
             THEN Outcome(s, ex2, "False", NoneV, calls)
             ELSE Outcome(s, ex2, "None", w.raised, calls)
        ELSE IF TerminalResponse(w.returned)
        THEN Outcome([s EXCEPT !.order = NoneV], ex2, "False", NoneV, calls)
        ELSE Outcome([s EXCEPT !.order = w.returned], ex2, "True", NoneV,
                     calls)

\* OBIStrategy._cancel_order
cancel_order(s, ex, orc) ==
    IF s.order = NoneV \/ "id" \notin s.order.keys
    THEN Outcome(s, ex, "False", NoneV, NoCalls)
    ELSE
    LET w == wrapper(ClientScript(orc, CancelResponse), MAX_RETRIES)
        calls == [NoCalls EXCEPT !.cancel_order = 1, !.attempts = w.calls,
                                 !.sleeps = w.sleeps, !.trace = w.trace,
                                 !.cancel_id = s.order.id,
                                 !.cancel_answered = w.success]
    IN  IF w.raised # NoneV
        THEN IF w.raised.class \in StrategyCaught
             THEN Outcome(s, ex, "False", NoneV, calls)
             ELSE Outcome(s, ex, "None", w.raised, calls)
        ELSE Outcome(s, ex, "True", NoneV, calls)

\* x + y of Python for a Decimal x: a float operand is a TypeError
PyAdd(x, y) ==
    IF y.tag = "float" THEN Err("TypeError")
    ELSE IF x.tag = "NaN" \/ y.tag = "NaN" THEN Ok(NaN)
    ELSE Ok(DecAdd(x, y))

\* OBIStrategy._update_pending_order
update_pending_order(s, ex, signal, now, orc) ==
    IF s.order = NoneV \/ "price" \notin s.order.keys
                       \/ "created_at" \notin s.order.keys
    THEN Outcome(s, ex, "False", NoneV, NoCalls)
    ELSE
    LET price == s.order.price
        market_price == get_market_price(s, signal)
        elapsed_time == now - s.order.created_at
        can_be_cancelled == elapsed_time > MINIMUM_HOLD_TIME
    IN  IF market_price.raised # NoneV
        THEN Outcome(s, ex, "None", market_price.raised, NoCalls)
        ELSE IF signal = BUY_SIGNAL
        THEN LET padded == PyAdd(market_price.value, LIMIT_PADDING)
             IN  IF padded.raised # NoneV
                 THEN Outcome(s, ex, "None", padded.raised, NoCalls)
                 ELSE IF can_be_cancelled /\ price # padded.value
                 THEN [cancel_order(s, ex, orc) EXCEPT
                          !.ret = IF @ = "None" THEN "None" ELSE "True"]
                 ELSE Outcome(s, ex, "True", NoneV, NoCalls)
        \* the second branch tests BUY_SIGNAL again: under a sell signal
        \* price_changed is never bound
        ELSE IF signal = SELL_SIGNAL
        THEN IF can_be_cancelled
             THEN Outcome(s, ex, "None", Exc("UnboundLocalError", 0), NoCalls)
             ELSE Outcome(s, ex, "True", NoneV, NoCalls)
        ELSE [cancel_order(s, ex, orc) EXCEPT
                 !.ret = IF @ = "None" THEN "None" ELSE "True"]

\* GDAXTrader.buy / GDAXTrader.sell under the decorator: the body
\* quantizes the size before it calls the client, so a size of None raises
\* AttributeError, which the decorator does not retry
PlaceScript(size, orc, resp) ==
    IF size = NoneV
    THEN [i \in 1..MAX_RETRIES |-> Raise(Exc("AttributeError", i))]
    ELSE ClientScript(orc, resp)

\* mutant: whatever buy or sell returns becomes the tracked order
place_call_TrackAny(s, ex, signal, market_price, size, now, orc) ==
    LET accept == orc.accept /\ size # NoneV /\ market_price.tag = "Decimal"
        resp == PlaceResponse(ex, accept, signal, market_price, now)
        w == wrapper(PlaceScript(size, orc, resp), MAX_RETRIES)
        \* an attempt that returned the accepted order has put it on the book
        ex2 == IF w.success /\ accept
               THEN [live |-> ex.live \cup {ex.next_id},
                     next_id |-> ex.next_id + 1]
               ELSE ex
        calls == [NoCalls EXCEPT
                     !.buy = IF signal = BUY_SIGNAL THEN 1 ELSE 0,
                     !.sell = IF signal = SELL_SIGNAL THEN 1 ELSE 0,
                     !.attempts = IF size = NoneV THEN 0 ELSE w.calls,
                     !.sleeps = w.sleeps,
                     !.trace = IF size = NoneV THEN <<>> ELSE w.trace,
                     !.placed = [tag |-> "request", price |-> market_price,
                                 size |-> size],
                     !.answer = w.returned]
    IN  IF w.raised # NoneV
        THEN IF w.raised.class \in StrategyCaught
             THEN Outcome(s, ex2, "False", NoneV, calls)
             ELSE Outcome(s, ex2, "None", w.raised, calls)
        ELSE Outcome([s EXCEPT !.order = w.returned], ex2, "True", NoneV,
                     calls)

\* the part of _place_order after the size is known: the call of
\* trader.buy or trader.sell and the tracking of its response
place_call(s, ex, signal, market_price, size, now, orc) ==
    LET accept == orc.accept /\ size # NoneV /\ market_price.tag = "Decimal"
        resp == PlaceResponse(ex, accept, signal, market_price, now)
        w == wrapper(PlaceScript(size, orc, resp), MAX_RETRIES)
        \* an attempt that returned the accepted order has put it on the book
        ex2 == IF w.success /\ accept
               THEN [live |-> ex.live \cup {ex.next_id},
                     next_id |-> ex.next_id + 1]
               ELSE ex
        calls == [NoCalls EXCEPT
                     !.buy = IF signal = BUY_SIGNAL THEN 1 ELSE 0,
                     !.sell = IF signal = SELL_SIGNAL THEN 1 ELSE 0,
                     !.attempts = IF size = NoneV THEN 0 ELSE w.calls,
                     !.sleeps = w.sleeps,
                     !.trace = IF size = NoneV THEN <<>> ELSE w.trace,
                     !.placed = [tag |-> "request", price |-> market_price,
                                 size |-> size],
                     !.answer = w.returned]
    IN  IF w.raised # NoneV
        THEN IF w.raised.class \in StrategyCaught
             THEN Outcome(s, ex2, "False", NoneV, calls)
             ELSE Outcome(s, ex2, "None", w.raised, calls)
        ELSE IF "message" \notin w.returned.keys
        THEN Outcome([s EXCEPT !.order = w.returned], ex2, "True", NoneV,
                     calls)
        ELSE Outcome(s, ex2, "True", NoneV, calls)

\* balance / market_price of Python: None as the dividend is a TypeError
PyDiv(x, y) ==
    IF x = NoneV THEN Err("TypeError")
    ELSE IF y.tag = "NaN" THEN Ok(NaN)
    ELSE IF y.n = 0 THEN Err("ZeroDivisionError")
    ELSE Ok(DecDiv(x, y))

\* OBIStrategy._place_order, for the product BTC-USD (quote USD, base BTC)
place_order(s, ex, signal, now, orc) ==
    IF s.order # NoneV
    THEN Outcome(s, ex, "False", NoneV, NoCalls)
    ELSE
    LET market_price == get_market_price(s, signal)
    IN  IF market_price.raised # NoneV
        THEN Outcome(s, ex, "None", market_price.raised, NoCalls)
        ELSE IF signal = BUY_SIGNAL
        THEN LET size == PyDiv(get_currency_balance(s.accounts, "USD"),
                               market_price.value)
             IN  IF size.raised # NoneV
                 THEN Outcome(s, ex, "None", size.raised, NoCalls)
                 ELSE place_call(s, ex, signal, market_price.value,
                                 size.value, now, orc)
        ELSE IF signal = SELL_SIGNAL
        THEN place_call(s, ex, signal, market_price.value,
                        get_currency_balance(s.accounts, "BTC"), now, orc)
        ELSE Outcome(s, ex, "False", NoneV, NoCalls)

\* mutant: the order is polled a second time before the step is chosen
next_step_PollTwice(s, ex, signal, now, orc) ==
    Only({
        IF t1.raised # NoneV THEN t1
        ELSE Only({
            IF t.raised # NoneV
            THEN [t EXCEPT !.calls = AddCalls(t1.calls, @)]
            ELSE Only({
                [u EXCEPT !.calls = [AddCalls(AddCalls(t1.calls, t.calls), @)
                                        EXCEPT !.step = IF t.ret = "True"
                                                        THEN "reprice"
                                                        ELSE "place"],
                          !.ret = "None"]
                : u \in {IF t.ret = "True"
                         THEN update_pending_order(t.s, t.ex, signal, now,
                                                   orc.act)
                         ELSE place_order(t.s, t.ex, signal, now, orc.act)}})
            : t \in {track_order(t1.s, t1.ex, orc.poll)}})
        : t1 \in {track_order(s, ex, orc.poll)}})

\* OBIStrategy.next after the signal is known (lines 38-49): the poll, then
\* the repricing step or the placement step.  orc.poll and orc.act are the
\* client's behaviour in the poll and in the call of the step.
next_step(s, ex, signal, now, orc) ==
    Only({
        IF t.raised # NoneV THEN t
        ELSE Only({
            [u EXCEPT !.calls = [AddCalls(t.calls, @) EXCEPT
                                    !.step = IF t.ret = "True" THEN "reprice"
                                             ELSE "place"],
                      !.ret = "None"]
            : u \in {IF t.ret = "True"
                     THEN update_pending_order(t.s, t.ex, signal, now,
                                               orc.act)
                     ELSE place_order(t.s, t.ex, signal, now, orc.act)}})
        : t \in {track_order(s, ex, orc.poll)}})

\* OBIStrategy.next
next(s, ex, now, orc) ==
    Only({
        IF signal.raised # NoneV
        THEN Outcome(signal.s, ex, "None", signal.raised, NoCalls)
        ELSE next_step(signal.s, ex, signal.value, now, orc)
        : signal \in {get_trade_signal(s)}})

(***************************************************************************)
(* gdax_trader.py: GDAXTrader                                              *)
(***************************************************************************)
FREQUENCY == 60

\* gdax_trader.py imports ConnectionError from requests.exceptions
TraderCaught == {"requests.ConnectionError", "JSONDecodeError"}

\* a raw side of the book: "header" tells whether the array starts with the
\* row of column names, "rows" are the levels after it
RawSide(header, rows) == [header |-> header, rows |-> rows]

\* the dictionary of a book payload, with the sides under the keys it has
BookDict(keys, bids, ask) ==
    [tag |-> "book", keys |-> keys,
     bids |-> IF "bids" \in keys THEN bids ELSE RawSide(FALSE, <<>>),
     ask |-> IF "ask" \in keys THEN ask ELSE RawSide(FALSE, <<>>)]

\* one side of _order_book_to_df: pop(0) takes the header row off, and
\* raises IndexError on an empty array; a missing key gives None
SideToDf(order_book, key) ==
    IF order_book.tag # "book" THEN Err("TypeError")
    ELSE IF key \notin order_book.keys THEN Ok(NoneV)
    ELSE LET raw == IF key = "bids" THEN order_book.bids ELSE order_book.ask
         IN  IF ~raw.header THEN Err("IndexError")
             ELSE Ok([tag |-> "df", rows |-> raw.rows, text |-> FALSE])

\* GDAXTrader._order_book_to_df: the ask side is read under the key 'ask'
order_book_to_df(order_book) ==
    LET bid_orders == SideToDf(order_book, "bids")
        ask_orders == SideToDf(order_book, "ask")
    IN  IF bid_orders.raised # NoneV
        THEN [raised |-> bid_orders.raised, bids |-> NoneV, asks |-> NoneV]
        ELSE IF ask_orders.raised # NoneV
        THEN [raised |-> ask_orders.raised, bids |-> NoneV, asks |-> NoneV]
        ELSE [raised |-> NoneV, bids |-> bid_orders.value,
              asks |-> ask_orders.value]

\* order_book[0]: None is not subscriptable (TypeError), an empty tuple has
\* no element (IndexError), a dictionary has no key 0 (KeyError)
FirstElement(order_book) ==
    IF order_book.tag = "None" THEN Err("TypeError")
    ELSE IF order_book.tag = "book" THEN Err("KeyError")
    ELSE IF order_book.items = <<>> THEN Err("IndexError")
    ELSE Ok(order_book.items[1])

\* the calls of one iteration: how often each fetch was called, what it
\* raised, the payload fetched, and the strategy hooks in call order
NoFetches ==
    [get_accounts |-> 0, get_order_book |-> 0, accounts_raised |-> NoneV,
     book_raised |-> NoneV, payload |-> NoneV, events |-> <<>>,
     attempts |-> 0, strategy_attempts |-> 0]

\* the client calls of the strategies under run(): a strategy that tracks
\* no order and has no signal calls nothing, so the oracle is idle
IdleOracle ==
    [poll |-> [fails |-> 0, class |-> "requests.ConnectionError",
               shape |-> [message |-> FALSE, done_reason |-> "",
                          status |-> "open", settled |-> "False"]],
     act |-> [fails |-> 0, class |-> "requests.ConnectionError",
              accept |-> TRUE]]

\* mutant: the strategies share one state, so that the tick of one is
\* seen by all
RECURSIVE update_strategies_SharedState(_, _, _, _, _, _, _, _, _)
update_strategies_SharedState(strats, ex, i, accounts, bids, asks, now, events, attempts) ==
    IF i > Len(strats)
    THEN [strategies |-> strats, ex |-> ex, raised |-> NoneV,
          events |-> events, attempts |-> attempts]
    ELSE Only({
        IF out.raised # NoneV
        THEN [strategies |-> [k \in 1..Len(strats) |-> out.s], ex |-> out.ex,
              raised |-> out.raised,
              events |-> events \o <<[call |-> "next_data", strategy |-> i],
                                     [call |-> "next", strategy |-> i]>>,
              attempts |-> attempts + out.calls.attempts]
        ELSE update_strategies_SharedState(
                 [k \in 1..Len(strats) |-> out.s], out.ex, i + 1, accounts,
                 bids, asks, now,
                 events \o <<[call |-> "next_data", strategy |-> i],
                             [call |-> "next", strategy |-> i]>>,
                 attempts + out.calls.attempts)
        : out \in {next(next_data(strats[i], accounts, bids, asks), ex, now,
                        IdleOracle)}})

\* the loop over self.strategies in _run_iteration, from strategy i on: an
\* exception of next() leaves the loop; "attempts" counts the attempts of
\* the client calls the strategies made
RECURSIVE update_strategies(_, _, _, _, _, _, _, _, _)
update_strategies(strats, ex, i, accounts, bids, asks, now, events, attempts) ==
    IF i > Len(strats)
    THEN [strategies |-> strats, ex |-> ex, raised |-> NoneV,
          events |-> events, attempts |-> attempts]
    ELSE Only({
        IF out.raised # NoneV
        THEN [strategies |-> [strats EXCEPT ![i] = out.s], ex |-> out.ex,
              raised |-> out.raised,
              events |-> events \o <<[call |-> "next_data", strategy |-> i],
                                     [call |-> "next", strategy |-> i]>>,
              attempts |-> attempts + out.calls.attempts]
        ELSE update_strategies(
                 [strats EXCEPT ![i] = out.s], out.ex, i + 1, accounts, bids,
                 asks, now,
                 events \o <<[call |-> "next_data", strategy |-> i],
                             [call |-> "next", strategy |-> i]>>,
                 attempts + out.calls.attempts)
        : out \in {next(next_data(strats[i], accounts, bids, asks), ex, now,
                        IdleOracle)}})

IterationOutcome(strats, ex, ret, raised, fetches) ==
    [strategies |-> strats, ex |-> ex, ret |-> ret, raised |-> raised,
     fetches |-> fetches]

\* _run_iteration from line 111 on: the frames are built and the
\* strategies updated; no exception is caught here
run_iteration_update(strats, ex, now, accounts, order_book, fetched) ==
    Only({
        IF df.raised # NoneV
        THEN IterationOutcome(strats, ex, "None", df.raised, fetched)
        ELSE Only({
            IterationOutcome(u.strategies, u.ex,
                             IF u.raised # NoneV THEN "None" ELSE "True",
                             u.raised,
                             [fetched EXCEPT !.events = u.events,
                                             !.strategy_attempts = u.attempts])
            : u \in {update_strategies(strats, ex, 1, accounts, df.bids,
                                       df.asks, now, <<>>, 0)}})
        : df \in {order_book_to_df(order_book)}})

\* _run_iteration after the book is fetched (lines 104-116): order_book[0]
\* is guarded against TypeError only
run_iteration_first(strats, ex, now, accounts, payload, fetched) ==
    Only({
        IF order_book.raised # NoneV
        THEN IF order_book.raised.class = "TypeError"
             THEN IterationOutcome(strats, ex, "False", NoneV, fetched)
             ELSE IterationOutcome(strats, ex, "None", order_book.raised,
                                   fetched)
        ELSE run_iteration_update(strats, ex, now, accounts,
                                  order_book.value, fetched)
        : order_book \in {FirstElement(payload)}})

\* the part of _run_iteration after the accounts are fetched (lines 94-116)
run_iteration_book(strats, ex, now, accounts, orc, fetched) ==
    Only({
        IF wb.raised # NoneV
        THEN IterationOutcome(
                 strats, ex,
                 IF wb.raised.class \in TraderCaught THEN "False" ELSE "None",
                 IF wb.raised.class \in TraderCaught THEN NoneV
                 ELSE wb.raised,
                 [fetched EXCEPT !.get_order_book = 1,
                                 !.book_raised = wb.raised,
                                 !.attempts = @ + wb.calls])
        ELSE run_iteration_first(
                 strats, ex, now, accounts, wb.returned,
                 [fetched EXCEPT !.get_order_book = 1,
                                 !.payload = wb.returned,
                                 !.attempts = @ + wb.calls])
        : wb \in {wrapper(ClientScript(orc, orc.payload), MAX_RETRIES)}})

\* mutant: a failed account fetch does not end the iteration
run_iteration_NoSkip(strats, ex, now, acc, book) ==
    Only({
        run_iteration_book(
            strats, ex, now,
            IF wa.raised # NoneV THEN <<>> ELSE wa.returned, book,
            [NoFetches EXCEPT !.get_accounts = 1,
                              !.accounts_raised = wa.raised,
                              !.attempts = wa.calls])
        : wa \in {wrapper(ClientScript(acc, acc.accounts), MAX_RETRIES)}})

\* GDAXTrader._run_iteration; acc and book are the client's behaviour in
\* the two fetches
run_iteration(strats, ex, now, acc, book) ==
    Only({
        IF wa.raised # NoneV
        THEN IterationOutcome(
                 strats, ex,
                 IF wa.raised.class \in TraderCaught THEN "False" ELSE "None",
                 IF wa.raised.class \in TraderCaught THEN NoneV
                 ELSE wa.raised,
                 [NoFetches EXCEPT !.get_accounts = 1,
                                   !.accounts_raised = wa.raised,
                                   !.attempts = wa.calls])
        ELSE run_iteration_book(strats, ex, now, wa.returned, book,
                                [NoFetches EXCEPT !.get_accounts = 1,
                                                  !.attempts = wa.calls])
        : wa \in {wrapper(ClientScript(acc, acc.accounts), MAX_RETRIES)}})

\* mutant: the sleep is the whole period, whatever time the iteration took
sleep_time_FixedPeriod(now, start) == FREQUENCY

\* mutant: the elapsed time is not reduced modulo the period
sleep_time_NoModulo(now, start) == FREQUENCY - (now - start)

\* the sleep computed by run(): FREQUENCY - elapsed_time, with
\* elapsed_time = (time.time() - start_time) % FREQUENCY
sleep_time_of(now, start) == FREQUENCY - ((now - start) % FREQUENCY)

(***************************************************************************)
(* Harness of the decorator: a decorated function whose outcome on each    *)
(* attempt is scripted, as the MagicMock side_effect lists of              *)
(* test_utils.py.                                                          *)
(***************************************************************************)
MaxN == 4                    \* max_retries ranges over 1..MaxN
ScriptLen == MaxN + 1        \* one more outcome than any call may consume

ExcClasses == TransientClasses \cup {"ValueError"}

\* what attempt i of the scripted function does, by kind; values and
\* exceptions carry the attempt number
AttemptOutcome(kind, i) ==
    IF kind = "return" THEN Return([tag |-> "val", id |-> i])
    ELSE Raise(Exc(kind, i))

Scripts ==
    {[i \in 1..ScriptLen |-> AttemptOutcome(k[i], i)] :
        k \in [1..ScriptLen -> {"return"} \cup ExcClasses]}

NotCalled == [calls |-> 0, sleeps |-> 0, raised |-> NoneV, returned |-> NoneV,
              success |-> FALSE, trace |-> <<>>, called |-> FALSE]

\* the variables of the decorator's harness, when it is not running
RetryIdle ==
    /\ function = <<>>
    /\ max_retries = 0
    /\ result = NotCalled

\* the strategy variables, when no strategy is running
StrategyIdle ==
    /\ strategies = <<>>
    /\ exchange = [live |-> {}, next_id |-> 1]
    /\ clock = 0
    /\ last = [op |-> "none"]
    /\ steps = 0

\* the variables of run(), when the trader is not running
RunIdle ==
    /\ pc = "idle"
    /\ start_time = 0
    /\ sleep_time = 0

InitRetry ==
    /\ function \in Scripts
    /\ max_retries \in 1..MaxN
    /\ result = NotCalled
    /\ StrategyIdle
    /\ RunIdle

\* decorated_function()
CallWrapper ==
    /\ ~result.called
    /\ result' = wrapper(function, max_retries) @@ [called |-> TRUE]
    /\ UNCHANGED <<function, max_retries>>
    /\ UNCHANGED strategyVars
    /\ UNCHANGED runVars

NextRetry == CallWrapper

SpecRetry == InitRetry /\ [][NextRetry]_vars

(***************************************************************************)
(* Harness of one OBIStrategy: its methods are called one at a time, as    *)
(* the unit tests do, on a trader whose client is driven by the oracles.   *)
(***************************************************************************)
MaxSteps == 3       \* number of operations in a run
MaxTime == 21       \* the clock stops there

\* a frame with columns of numbers, and one with columns of strings
Frame(rows) == [tag |-> "df", rows |-> rows, text |-> FALSE]
TextFrame(rows) == [tag |-> "df", rows |-> rows, text |-> TRUE]
Level(price, size) == [price |-> price, size |-> size]

\* bid and ask frames handed to next_data
Books ==
    {[bids |-> Frame(<<Level(100, 1), Level(99, 2)>>),
      asks |-> Frame(<<Level(101, 1), Level(102, 1)>>)],
     [bids |-> Frame(<<Level(100, 3)>>),
      asks |-> Frame(<<Level(101, 1)>>)],
     [bids |-> Frame(<<>>), asks |-> Frame(<<>>)]}

\* an entry of the account list; "text" tells that the balance is a string
\* that is no number
Account(keys, currency, balance) ==
    [keys |-> keys,
     currency |-> IF "currency" \in keys THEN currency ELSE "",
     balance |-> IF "balance" \in keys THEN balance ELSE 0,
     hold |-> 0, text |-> FALSE]

\* an entry whose balance is a string that Decimal() refuses
TextAccount(currency) ==
    [keys |-> {"currency", "balance"}, currency |-> currency, balance |-> 0,
     hold |-> 0, text |-> TRUE]

\* an entry of which the exchange holds a part for resting orders:
\* 'balance' is the total, 'available' is balance - hold
HeldAccount(currency, balance, hold) ==
    [keys |-> {"currency", "balance", "available", "hold"},
     currency |-> currency, balance |-> balance, hold |-> hold,
     text |-> FALSE]

\* account lists handed to next_data: both currencies, a list whose
\* quote-currency entry is an error entry, and both currencies with a part
\* on hold
AccountLists ==
    {<<Account({"currency", "balance"}, "USD", 1000),
       Account({"currency", "balance"}, "BTC", 2)>>,
     <<Account({}, "", 0),
       Account({"currency", "balance"}, "BTC", 2)>>,
     <<HeldAccount("USD", 1000, 400), HeldAccount("BTC", 2, 1)>>}

Signals == {BUY_SIGNAL, SELL_SIGNAL, NoSignal}

Shapes ==
    [message : BOOLEAN, done_reason : {"", "cancelled", "filled"},
     status : {"", "open", "done", "rejected"},
     settled : {"absent", "True", "False"}]

OpenShape ==
    [message |-> FALSE, done_reason |-> "", status |-> "open",
     settled |-> "False"]

\* the client in a poll by _track_order alone: it answers at once with any
\* shape, answers on the last attempt after transient failures, or fails
\* on every attempt
PollOracles ==
    {[fails |-> 0, class |-> "requests.ConnectionError", shape |-> sh] :
        sh \in Shapes}
    \cup {[fails |-> f, class |-> c, shape |-> OpenShape] :
            f \in {MAX_RETRIES - 1, MAX_RETRIES}, c \in TransientClasses}

\* the shapes polled inside next(): open, filled, settled, cancelled,
\* rejected, not found
TickShapes ==
    {OpenShape,
     [OpenShape EXCEPT !.status = "done", !.done_reason = "filled"],
     [OpenShape EXCEPT !.status = "done", !.done_reason = "filled",
                       !.settled = "True"],
     [OpenShape EXCEPT !.status = "done", !.done_reason = "cancelled"],
     [OpenShape EXCEPT !.status = "rejected"],
     [message |-> TRUE, done_reason |-> "", status |-> "",
      settled |-> "absent"]}

TickPollOracles == {p \in PollOracles : p.shape \in TickShapes}

\* the client in buy, sell or cancel: it answers at once (accepting or
\* with an error dictionary), accepts on the last attempt after transient
\* failures, or fails on every attempt
ActOracles ==
    {[fails |-> 0, class |-> "requests.ConnectionError", accept |-> a] :
        a \in BOOLEAN}
    \cup {[fails |-> f, class |-> c, accept |-> TRUE] :
            f \in {MAX_RETRIES - 1, MAX_RETRIES}, c \in TransientClasses}

NoPoll == [fails |-> 0, class |-> "requests.ConnectionError",
           shape |-> OpenShape]
NoAct == [fails |-> 0, class |-> "requests.ConnectionError", accept |-> TRUE]

\* the exchange answers that an order rests on the book only if it does;
\* when no poll is made the oracle is the idle one
PollConsistent(s, ex, orc) ==
    IF s.order = NoneV \/ "id" \notin s.order.keys
    THEN orc = NoPoll
    ELSE \/ orc.fails = MAX_RETRIES
         \/ ShapeLive(orc.shape) => s.order.id \in ex.live

\* the record of an operation on strategy i
Called(op, signal, s, ex, out) ==
    [op |-> op, signal |-> signal, order |-> s.order, live |-> ex.live,
     ret |-> out.ret, raised |-> out.raised, calls |-> out.calls]

InitStrategy ==
    /\ RetryIdle
    /\ RunIdle
    /\ strategies = <<NewStrategy>>
    /\ exchange = NewExchange
    /\ clock = 0
    /\ last = [op |-> "none"]
    /\ steps = 0

Apply(op, signal, out) ==
    /\ steps < MaxSteps
    /\ \E o \in {out} :
        /\ strategies' = [strategies EXCEPT ![1] = o.s]
        /\ exchange' = o.ex
        /\ last' = Called(op, signal, strategies[1], exchange, o)
    /\ steps' = steps + 1
    /\ UNCHANGED clock
    /\ UNCHANGED retryVars
    /\ UNCHANGED runVars

\* strategy.next_data(accounts, bid_orders, ask_orders)
CallNextData ==
    \E a \in AccountLists, b \in Books :
        Apply("next_data", NoSignal,
              Outcome(next_data(strategies[1], a, b.bids, b.asks), exchange,
                      "None", NoneV, NoCalls))

\* strategy.next()
CallNext ==
    \E p \in TickPollOracles, a \in ActOracles :
        /\ PollConsistent(strategies[1], exchange, p)
        /\ Apply("next", NoSignal,
                 next(strategies[1], exchange, clock, [poll |-> p, act |-> a]))

\* strategy.next() with _get_trade_signal replaced by a mock that returns
\* the signal, as in test_next_place_new_order
CallNextMockedSignal ==
    \E signal \in Signals, p \in TickPollOracles, a \in ActOracles :
        /\ PollConsistent(strategies[1], exchange, p)
        /\ Apply("next_step", signal,
                 next_step(strategies[1], exchange, signal, clock,
                           [poll |-> p, act |-> a]))

\* strategy._track_order()
CallTrackOrder ==
    \E p \in PollOracles :
        /\ PollConsistent(strategies[1], exchange, p)
        /\ Apply("_track_order", NoSignal,
                 track_order(strategies[1], exchange, p))

\* strategy._place_order(signal)
CallPlaceOrder ==
    \E signal \in Signals, a \in ActOracles :
        Apply("_place_order", signal,
              place_order(strategies[1], exchange, signal, clock, a))

\* strategy._update_pending_order(signal); the oracle is the client's
\* behaviour in cancel_order
CallUpdatePendingOrder ==
    \E signal \in Signals, a \in {o \in ActOracles : o.accept} :
        Apply("_update_pending_order", signal,
              update_pending_order(strategies[1], exchange, signal, clock, a))

\* strategy._cancel_order(); the oracle is the client's behaviour in
\* cancel_order
CallCancelOrder ==
    \E a \in {o \in ActOracles : o.accept} :
        Apply("_cancel_order", NoSignal,
              cancel_order(strategies[1], exchange, a))

\* time passes
Advance ==
    /\ \E d \in {MINIMUM_HOLD_TIME, MINIMUM_HOLD_TIME + 1} :
        /\ clock + d <= MaxTime
        /\ clock' = clock + d
    /\ UNCHANGED <<strategies, exchange, last, steps>>
    /\ UNCHANGED retryVars
    /\ UNCHANGED runVars

NextStrategy ==
    \/ CallNextData
    \/ CallNext
    \/ CallNextMockedSignal
    \/ CallTrackOrder
    \/ CallPlaceOrder
    \/ CallUpdatePendingOrder
    \/ CallCancelOrder
    \/ Advance

SpecStrategy == InitStrategy /\ [][NextStrategy]_vars

(***************************************************************************)
(* Harness of the signal engine: one OBIStrategy that has received a       *)
(* snapshot, on a market whose book does not move, ticked PERIOD + 1       *)
(* times.                                                                  *)
(***************************************************************************)
MaxLevels == 2      \* rows on a side of the book

\* the sides of the book: up to MaxLevels rows, positive sizes
SideRows(prices) ==
    UNION {[1..n -> {Level(p, z) : p \in prices, z \in {1, 3}}] :
              n \in 0..MaxLevels}

SignalBooks ==
    {[bids |-> Frame(b), asks |-> Frame(a)] :
        b \in SideRows({99, 100}), a \in SideRows({101, 102})}

InitSignal ==
    /\ RetryIdle
    /\ RunIdle
    /\ \E b \in SignalBooks :
          strategies = <<next_data(NewStrategy,
                                   <<Account({"currency", "balance"}, "USD",
                                             1000),
                                     Account({"currency", "balance"}, "BTC",
                                             2)>>,
                                   b.bids, b.asks)>>
    /\ exchange = NewExchange
    /\ clock = 0
    /\ last = [op |-> "none"]
    /\ steps = 0

\* strategy.next(); the record keeps the signal _get_trade_signal returned
\* ("raised" when it raised) and the history before the call
Tick ==
    /\ steps <= PERIOD
    /\ \E sig \in {get_trade_signal(strategies[1])},
          out \in {next(strategies[1], exchange, clock, IdleOracle)} :
        /\ strategies' = [strategies EXCEPT ![1] = out.s]
        /\ exchange' = out.ex
        /\ last' = Called("next",
                          IF sig.raised # NoneV THEN "raised" ELSE sig.value,
                          strategies[1], exchange, out)
                   @@ [history |-> strategies[1].order_book_imbalance]
    /\ steps' = steps + 1
    /\ UNCHANGED clock
    /\ UNCHANGED retryVars
    /\ UNCHANGED runVars

NextSignal == Tick

SpecSignal == InitSignal /\ [][NextSignal]_vars

(***************************************************************************)
(* Harness of the balance lookup: a strategy that has received an account  *)
(* list, asked for the balance of a currency, as in test_strategy.py.      *)
(***************************************************************************)
MaxAccounts == 3    \* entries of the account list

Currencies == {"USD", "BTC"}

\* entries with any of the two fields, and entries whose balance is text
AccountEntries ==
    {Account(k, c, b) :
        k \in SUBSET {"currency", "balance"}, c \in Currencies, b \in {1, 2}}
    \cup {TextAccount(c) : c \in Currencies}

AccountSeqs == UNION {[1..n -> AccountEntries] : n \in 0..MaxAccounts}

InitBalance ==
    /\ RetryIdle
    /\ RunIdle
    /\ \E a \in AccountSeqs :
          strategies = <<next_data(NewStrategy, a, NoneV, NoneV)>>
    /\ exchange = NewExchange
    /\ clock = 0
    /\ last = [op |-> "none"]
    /\ steps = 0

\* strategy.get_currency_balance(currency), for a currency of the list or
\* one that no entry has
CallGetCurrencyBalance ==
    /\ steps = 0
    /\ \E currency \in Currencies \cup {"FAK"} :
          last' = [op |-> "get_currency_balance", currency |-> currency,
                   ret |-> get_currency_balance(strategies[1].accounts,
                                                currency)]
    /\ steps' = steps + 1
    /\ UNCHANGED <<strategies, exchange, clock>>
    /\ UNCHANGED retryVars
    /\ UNCHANGED runVars

NextBalance == CallGetCurrencyBalance

SpecBalance == InitBalance /\ [][NextBalance]_vars

(***************************************************************************)
(* _get_market_price on its own: a strategy holding any snapshot of up to  *)
(* MaxLevels rows a side, with columns of numbers or of strings, and any   *)
(* tracked order.                                                          *)
(***************************************************************************)
PriceRows ==
    UNION {[1..n -> {Level(p, 1) : p \in {99, 100, 101}}] : n \in 0..MaxLevels}

\* the snapshots: both frames of numbers, or both of strings as the tests
\* of _get_market_price build them
PriceBooks ==
    {[bids |-> Frame(b), asks |-> Frame(a)] : b \in PriceRows, a \in PriceRows}
    \cup {[bids |-> TextFrame(b), asks |-> TextFrame(a)] :
             b \in PriceRows, a \in PriceRows}

\* no tracked order, an order with a price, an order without one
PriceOrders ==
    {NoneV,
     Dict({"id", "price"}, 1, Dec(100, 1), 0, "", "", FALSE),
     Dict({"id"}, 1, Dec(0, 1), 0, "", "", FALSE)}

InitPrice ==
    /\ RetryIdle
    /\ RunIdle
    /\ \E b \in PriceBooks, o \in PriceOrders :
          strategies = <<[next_data(NewStrategy, <<>>, b.bids, b.asks)
                            EXCEPT !.order = o]>>
    /\ exchange = NewExchange
    /\ clock = 0
    /\ last = [op |-> "none"]
    /\ steps = 0

\* strategy._get_market_price(signal)
CallGetMarketPrice ==
    /\ steps = 0
    /\ \E signal \in Signals :
          \E r \in {get_market_price(strategies[1], signal)} :
             last' = [op |-> "_get_market_price", signal |-> signal,
                      ret |-> r.value, raised |-> r.raised]
    /\ steps' = steps + 1
    /\ UNCHANGED <<strategies, exchange, clock>>
    /\ UNCHANGED retryVars
    /\ UNCHANGED runVars

NextPrice == CallGetMarketPrice

SpecPrice == InitPrice /\ [][NextPrice]_vars

(***************************************************************************)
(* _order_book_to_df on its own: the dictionary of a payload with any of   *)
(* the keys 'bids', 'ask' and 'asks', each side an array of up to          *)
(* MaxLevels rows after its header row, or an empty array.                 *)
(***************************************************************************)
RawSides ==
    {RawSide(FALSE, <<>>)}
    \cup {RawSide(TRUE, r) :
             r \in UNION {[1..n -> {Level(p, 1) : p \in {99, 100}}] :
                             n \in 0..MaxLevels}}

BookDicts ==
    {BookDict(k, b, a) :
        k \in SUBSET {"bids", "ask", "asks"}, b \in RawSides, a \in RawSides}

\* the dictionary taken out of the fetched tuple (gdax_trader.py:104)
InitBook ==
    /\ RetryIdle
    /\ RunIdle
    /\ strategies = <<>>
    /\ exchange = NewExchange
    /\ clock = 0
    /\ \E d \in BookDicts : last = [op |-> "order_book[0]", ret |-> d]
    /\ steps = 0

\* self._order_book_to_df(order_book)
CallOrderBookToDf ==
    /\ steps = 0
    /\ \E r \in {order_book_to_df(last.ret)} :
          last' = [op |-> "_order_book_to_df", order_book |-> last.ret,
                   raised |-> r.raised, bids |-> r.bids, asks |-> r.asks]
    /\ steps' = steps + 1
    /\ UNCHANGED <<strategies, exchange, clock>>
    /\ UNCHANGED retryVars
    /\ UNCHANGED runVars

NextBook == CallOrderBookToDf

SpecBook == InitBook /\ [][NextBook]_vars

(***************************************************************************)
(* The trader running: run() with NumStrategies strategies registered, on  *)
(* a client driven by the oracles; each iteration takes some time.         *)
(***************************************************************************)
NumStrategies == 2      \* strategies added before run()
MaxIterations == 2      \* iterations of the loop of run()

\* seconds an iteration may take, retried calls included
Durations == {0, 1, FREQUENCY - 1, FREQUENCY + 1}

Header(rows) == RawSide(TRUE, rows)
Tuple(items) == [tag |-> "tuple", items |-> items]

\* what get_product_order_book may return: a one-element tuple holding the
\* book (both sides with levels, under 'bids' and 'ask'; both sides empty;
\* the ask side under 'asks'; a bid array without its header row), None,
\* an empty tuple, and the dictionary alone
BookPayloads ==
    {Tuple(<<BookDict({"bids", "ask"},
                      Header(<<Level(100, 1), Level(99, 2)>>),
                      Header(<<Level(101, 1), Level(102, 1)>>))>>),
     Tuple(<<BookDict({"bids", "ask"},
                      Header(<<Level(100, 3)>>),
                      Header(<<Level(101, 1)>>))>>),
     Tuple(<<BookDict({"bids", "ask"}, Header(<<>>), Header(<<>>))>>),
     Tuple(<<BookDict({"bids", "asks"}, Header(<<Level(100, 3)>>),
                      Header(<<>>))>>),
     Tuple(<<BookDict({"bids", "ask"}, RawSide(FALSE, <<>>),
                      Header(<<Level(101, 1)>>))>>),
     NoneV,
     Tuple(<<>>),
     BookDict({"bids", "ask"}, Header(<<Level(100, 3)>>),
              Header(<<Level(101, 1)>>))}

\* the client in a fetch: it answers at once, answers on the last attempt
\* after transient failures, or fails on every attempt
FetchFailures ==
    {[fails |-> f, class |-> c] :
        f \in {MAX_RETRIES - 1, MAX_RETRIES}, c \in TransientClasses}

AccountOracles ==
    {[fails |-> 0, class |-> "requests.ConnectionError", accounts |-> a] :
        a \in AccountLists}
    \cup {[fails |-> x.fails, class |-> x.class, accounts |-> <<>>] :
            x \in FetchFailures}

BookOracles ==
    {[fails |-> 0, class |-> "requests.ConnectionError", payload |-> b] :
        b \in BookPayloads}
    \cup {[fails |-> x.fails, class |-> x.class, payload |-> NoneV] :
            x \in FetchFailures}

NoBookFetch ==
    [fails |-> 0, class |-> "requests.ConnectionError", payload |-> NoneV]

InitRun ==
    /\ RetryIdle
    /\ strategies = [i \in 1..NumStrategies |-> NewStrategy]
    /\ exchange = NewExchange
    /\ clock \in {0, 7}
    /\ start_time = clock
    /\ sleep_time = 0
    /\ pc = "run"
    /\ last = [op |-> "none"]
    /\ steps = 0

\* one turn of the loop of run() up to the sleep: _run_iteration, then the
\* computation of sleep_time; an exception of _run_iteration ends run()
Iterate ==
    /\ pc = "run"
    /\ steps < MaxIterations
    /\ \E acc \in AccountOracles, book \in BookOracles, d \in Durations :
        \* the book oracle matters only when the book is fetched
        /\ acc.fails > 0 => book = NoBookFetch
        /\ \E out \in {run_iteration(strategies, exchange, clock, acc, book)} :
               /\ strategies' = out.strategies
               /\ exchange' = out.ex
               /\ last' = [op |-> "_run_iteration", ret |-> out.ret,
                           raised |-> out.raised, fetches |-> out.fetches,
                           before |-> strategies]
               /\ clock' = clock + d
               /\ IF out.raised # NoneV
                  THEN pc' = "crashed" /\ UNCHANGED sleep_time
                  ELSE /\ pc' = "sleeping"
                       /\ sleep_time' = sleep_time_of(clock', start_time)
    /\ steps' = steps + 1
    /\ UNCHANGED start_time
    /\ UNCHANGED retryVars

\* time.sleep(sleep_time)
Sleep ==
    /\ pc = "sleeping"
    /\ clock' = clock + sleep_time
    /\ pc' = "run"
    /\ UNCHANGED <<strategies, exchange, last, steps, start_time, sleep_time>>
    /\ UNCHANGED retryVars

NextRun == Iterate \/ Sleep

SpecRun == InitRun /\ [][NextRun]_vars

\* run() is one thread that nothing suspends: a turn of the loop that can
\* be taken is taken, and a sleep ends
SpecRunLive ==
    InitRun /\ [][NextRun]_vars /\ WF_vars(Iterate) /\ WF_vars(Sleep)

(***************************************************************************)
(* Claims about the strategy (SpecStrategy)                                *)
(***************************************************************************)
Tracked(order) == order # NoneV /\ "id" \in order.keys

\* the poll of the last operation returned a response to the strategy
Polled == last.calls.get_order = 1 /\ last.calls.poll_raised = NoneV

\* C3: a poll from state Open whose response has 'message', or done_reason
\* 'cancelled', or status 'rejected', or status 'done' with settled true,
\* clears the tracked order and reports not-open; after any other response
\* the tracked order is the whole response and the poll reports open
C3_PollClassifies ==
    (last.op = "_track_order" /\ Tracked(last.order) /\ Polled) =>
        LET resp == last.calls.resp
            terminal ==
                \/ "message" \in resp.keys
                \/ "done_reason" \in resp.keys /\ resp.done_reason = "cancelled"
                \/ "status" \in resp.keys /\ resp.status = "rejected"
                \/ /\ "status" \in resp.keys /\ resp.status = "done"
                   /\ "settled" \in resp.keys /\ resp.settled
        IN  IF terminal
            THEN strategies[1].order = NoneV /\ last.ret = "False"
            ELSE strategies[1].order = resp /\ last.ret = "True"

\* a poll answered status 'done' without 'settled' and the order stays
C3_Witness ==
    /\ last.op = "_track_order" /\ Tracked(last.order) /\ Polled
    /\ last.calls.resp.status = "done"
    /\ "settled" \notin last.calls.resp.keys
    /\ strategies[1].order = last.calls.resp
    /\ last.ret = "True"

\* C4: when get_order fails transiently on every attempt of its budget, no
\* exception leaves the operation and the tracked order is left as it was
C4_PollFailureSwallowed ==
    (/\ last.op \in {"next", "next_step", "_track_order"}
     /\ last.calls.get_order = 1
     /\ last.calls.poll_raised # NoneV
     /\ last.calls.poll_raised.class \in TransientClasses
     /\ ~last.calls.poll_answered) =>
        /\ last.raised = NoneV
        /\ strategies[1].order = last.order

BookLoaded(s) ==
    /\ s.bid_orders # NoneV /\ s.bid_orders.rows # <<>>
    /\ s.ask_orders # NoneV /\ s.ask_orders.rows # <<>>

\* C5: _place_order with a tracked order calls neither buy nor sell and
\* returns False; with no tracked order and a directional signal it calls
\* exactly the one of its direction, once; with no signal it calls neither
\* and returns False (stated for a strategy holding a book with levels on
\* both sides)
C5_PlacementInvariant ==
    (last.op = "_place_order" /\ BookLoaded(strategies[1])) =>
        /\ last.order # NoneV =>
              /\ last.calls.buy = 0 /\ last.calls.sell = 0
              /\ last.ret = "False"
        /\ (last.order = NoneV /\ last.signal = BUY_SIGNAL) =>
              last.calls.buy = 1 /\ last.calls.sell = 0
        /\ (last.order = NoneV /\ last.signal = SELL_SIGNAL) =>
              last.calls.buy = 0 /\ last.calls.sell = 1
        /\ last.signal = NoSignal =>
              /\ last.calls.buy = 0 /\ last.calls.sell = 0
              /\ last.ret = "False"

\* C6: every order the exchange has accepted and that is still live is the
\* strategy's tracked order, so at most one is live
C6_NoLostOrder ==
    /\ \A id \in exchange.live :
          \E i \in 1..Len(strategies) :
              Tracked(strategies[i].order) /\ strategies[i].order.id = id
    /\ Cardinality(exchange.live) <= Len(strategies)

\* the limit price the padding rule asks for: the best bid plus 0.01 for a
\* buy, the best ask minus 0.01 for a sell
PaddedPrice(s, signal) ==
    IF signal = BUY_SIGNAL
    THEN DecAdd(Dec(MaxPrice(s.bid_orders.rows), 1), Dec(1, 100))
    ELSE DecSub(Dec(MinPrice(s.ask_orders.rows), 1), Dec(1, 100))

Directional(signal) == signal \in {BUY_SIGNAL, SELL_SIGNAL}

\* C12: with no tracked order, the order requested under a BUY signal has
\* the limit price best bid + 0.01, and under a SELL signal best ask - 0.01
C12_PaddedPlacementPrice ==
    (/\ last.op = "_place_order"
     /\ last.order = NoneV
     /\ Directional(last.signal)
     /\ BookLoaded(strategies[1])
     /\ last.calls.placed # NoneV) =>
        last.calls.placed.price = PaddedPrice(strategies[1], last.signal)

\* the tracked order has the fields the repricing step reads
Repriceable(order) ==
    order # NoneV /\ {"price", "created_at"} \subseteq order.keys

\* the last operation was the repricing step on such an order, with the
\* snapshot it needs
Repriced ==
    /\ last.op = "_update_pending_order"
    /\ Repriceable(last.order)
    /\ Directional(last.signal) => BookLoaded(strategies[1])

\* seconds the order had been held when the last operation ran
Elapsed == clock - last.order.created_at

\* the order's price differs from the padded price of the signal's side
PriceChanged ==
    /\ Directional(last.signal)
    /\ last.order.price # PaddedPrice(strategies[1], last.signal)

\* C13: the repricing step issues a cancel exactly when the signal is
\* neutral, or the order has been held long enough and its price differs
\* from the padded price of the signal's side; the tracked order is left
\* as it was (stated away from the boundary of the hold time)
C13_RepricingDecision ==
    (Repriced /\ Elapsed # MINIMUM_HOLD_TIME) =>
        /\ last.calls.cancel_order = 1 <=>
              \/ last.signal = NoSignal
              \/ Elapsed > MINIMUM_HOLD_TIME /\ PriceChanged
        /\ strategies[1].order = last.order

\* C23: when the tracked order was placed for the other direction than
\* the current signal, the repricing step issues a cancel for it (stated
\* for the repricing steps that return normally)
C23_SignalChangeCancels ==
    (/\ Repriced
     /\ Directional(last.signal)
     /\ "side" \in last.order.keys
     /\ last.order.side # last.signal
     /\ last.raised = NoneV) =>
        /\ last.calls.cancel_order = 1
        /\ last.calls.cancel_id = last.order.id

\* C25: under a SELL signal the repricing step, whatever the time the
\* order has been held and whatever its price, issues no cancel, leaves
\* the tracked order as it was and returns normally
C25_SellRepricingSkipped ==
    (Repriced /\ last.signal = SELL_SIGNAL) =>
        /\ last.calls.cancel_order = 0
        /\ strategies[1].order = last.order
        /\ last.raised = NoneV
        /\ last.ret = "True"

\* C14: under a directional signal and a changed price, an order held for
\* at most MINIMUM_HOLD_TIME is cancelled exactly when it has been held
\* for MINIMUM_HOLD_TIME, the boundary included (stated for the repricing
\* steps that return normally)
C14_HoldBoundary ==
    (/\ Repriced /\ PriceChanged
     /\ Elapsed <= MINIMUM_HOLD_TIME
     /\ last.raised = NoneV) =>
        (last.calls.cancel_order = 1 <=> Elapsed = MINIMUM_HOLD_TIME)

\* C18: when the balance needed to size a buy is not found, the placement
\* is given up for the tick: no exception leaves the operation, nothing
\* is requested from the exchange and the tracked order stays absent
C18_LocalDataFaults ==
    (/\ last.op \in {"_place_order", "next_step"}
     /\ last.order = NoneV
     /\ last.signal = BUY_SIGNAL
     /\ BookLoaded(strategies[1])
     /\ get_currency_balance(strategies[1].accounts, "USD") = NoneV) =>
        /\ last.raised = NoneV
        /\ last.calls.buy = 0 /\ last.calls.sell = 0
        /\ strategies[1].order = NoneV

\* the amount of the currency that no order holds: balance - hold of the
\* currency's entry
RECURSIVE Available(_, _)
Available(accounts, currency) ==
    IF accounts = <<>> THEN NoneV
    ELSE IF /\ {"currency", "balance"} \subseteq Head(accounts).keys
            /\ Head(accounts).currency = currency
    THEN Dec(Head(accounts).balance - Head(accounts).hold, 1)
    ELSE Available(Tail(accounts), currency)

\* C22: the size requested by a BUY placement is the available quote
\* balance divided by the price of the request, and by a SELL placement
\* the available base balance (the trader rounds the size down, so that
\* what is sent never exceeds the size requested)
C22_OrderSizing ==
    (/\ last.op \in {"_place_order", "next_step"}
     /\ last.order = NoneV
     /\ last.calls.placed # NoneV
     /\ last.calls.placed.size # NoneV
     /\ last.calls.placed.price.tag = "Decimal") =>
        IF last.signal = BUY_SIGNAL
        THEN last.calls.placed.size =
                 DecDiv(Available(strategies[1].accounts, "USD"),
                        last.calls.placed.price)
        ELSE last.calls.placed.size =
                 Available(strategies[1].accounts, "BTC")

\* in the order of the client attempts and the pacing sleeps, what follows
\* an attempt is a sleep
Paced(trace) ==
    \A i \in 1..(Len(trace) - 1) :
        trace[i] = "attempt" => trace[i + 1] = "sleep"

PolledOpen ==
    /\ Polled
    /\ "message" \notin last.calls.resp.keys
    /\ last.calls.resp.done_reason # "cancelled"
    /\ last.calls.resp.status # "rejected"
    /\ ~(last.calls.resp.status = "done" /\ last.calls.resp.settled)

\* the poll of the last tick failed transiently on every attempt
PollFailed ==
    /\ last.calls.get_order = 1
    /\ last.calls.poll_raised # NoneV
    /\ last.calls.poll_raised.class \in TransientClasses

\* C26: once the signal is known, a tick polls the tracked order and runs
\* exactly one step: the repricing step when the poll reports the order
\* open, the placement step otherwise (no order tracked, order found
\* terminal, poll failed); after a failed poll the placement step places
\* nothing and the order stays tracked
C26_TickDispatch ==
    last.op = "next_step" =>
        /\ last.calls.step = IF PolledOpen THEN "reprice" ELSE "place"
        /\ Tracked(last.order) <=> last.calls.get_order = 1
        /\ PollFailed =>
              /\ last.calls.buy = 0 /\ last.calls.sell = 0
              /\ strategies[1].order = last.order

\* C27: _cancel_order with no tracked order returns False and calls
\* nothing; with a tracked order whose cancel request the exchange
\* answers, it has called cancel_order once with the order's id and
\* returns True; neither it nor the repricing step changes the tracked
\* order
C27_TwoPhaseCancel ==
    /\ last.op = "_cancel_order" =>
          /\ ~Tracked(last.order) =>
                /\ last.ret = "False"
                /\ last.calls.cancel_order = 0 /\ last.calls.attempts = 0
          /\ (Tracked(last.order) /\ last.calls.cancel_answered) =>
                /\ last.calls.cancel_order = 1
                /\ last.calls.cancel_id = last.order.id
                /\ last.ret = "True" /\ last.raised = NoneV
    /\ last.op \in {"_cancel_order", "_update_pending_order"} =>
          strategies[1].order = last.order

\* the last operation ran the placement step with no tracked order
PlacementStep ==
    /\ last.op \in {"_place_order", "next_step"}
    /\ last.order = NoneV
    /\ Directional(last.signal)

\* C20: what buy or sell returns becomes the tracked order only if it has
\* no 'message'; with one the tracked order stays absent, so that the next
\* tick with a directional signal runs the placement again: every such
\* tick that completes has called buy or sell
C20_PlacementResult ==
    /\ (PlacementStep /\ last.calls.answer # NoneV) =>
          IF "message" \in last.calls.answer.keys
          THEN strategies[1].order = NoneV
          ELSE strategies[1].order = last.calls.answer
    /\ (PlacementStep /\ last.op = "next_step" /\ last.raised = NoneV) =>
          last.calls.buy + last.calls.sell = 1

\* a buy answered with an error dictionary, the tracked order still absent
C20_Witness ==
    /\ PlacementStep
    /\ last.signal = BUY_SIGNAL
    /\ last.calls.buy = 1
    /\ last.calls.answer # NoneV
    /\ "message" \in last.calls.answer.keys
    /\ strategies[1].order = NoneV

(***************************************************************************)
(* Claims about the signal engine (SpecSignal)                             *)
(***************************************************************************)
Ticked == last.op = "next"

\* both sides of the snapshot are empty: no weighted volume at all
ZeroVolume(s) == s.bid_orders.rows = <<>> /\ s.ask_orders.rows = <<>>

\* C15: on a snapshot with zero volume on both sides the tick raises
\* nothing and the signal is neutral
C15_DegenerateSnapshot ==
    (Ticked /\ ZeroVolume(strategies[1])) =>
        /\ last.raised = NoneV
        /\ last.signal = NoSignal

\* C16 as stated: every imbalance computed lies strictly between -1 and 1
C16_StrictBounds ==
    \A i \in 1..Len(strategies[1].order_book_imbalance) :
        LET x == strategies[1].order_book_imbalance[i]
        IN  -x.d < x.n /\ x.n < x.d

\* C16, amended: every imbalance computed lies in [-1, 1]; it is 1 exactly
\* when the ask side has no volume and -1 exactly when the bid side has
\* none, and strictly inside when both sides have volume
C16_ClosedBounds ==
    \A i \in 1..Len(strategies[1].order_book_imbalance) :
        LET x == strategies[1].order_book_imbalance[i]
        IN  /\ -x.d <= x.n /\ x.n <= x.d
            /\ x.n = x.d <=> strategies[1].ask_orders.rows = <<>>
            /\ x.n = -x.d <=> strategies[1].bid_orders.rows = <<>>

\* an imbalance of exactly 1, computed from a book with two bid rows and
\* no ask
C16_Witness ==
    /\ Ticked
    /\ Len(strategies[1].order_book_imbalance) > 0
    /\ strategies[1].order_book_imbalance[1] = Dec(1, 1)
    /\ strategies[1].ask_orders.rows = <<>>
    /\ Len(strategies[1].bid_orders.rows) = 2

\* C17: a tick that leaves more than PERIOD entries in the history
\* completes normally with a signal decided from the last PERIOD entries;
\* with at most PERIOD entries the signal is neutral
C17_SignalDecision ==
    (Ticked /\ ~ZeroVolume(strategies[1])) =>
        /\ Len(strategies[1].order_book_imbalance) = Len(last.history) + 1
        /\ IF Len(strategies[1].order_book_imbalance) > PERIOD
           THEN last.raised = NoneV /\ last.signal \in Signals
           ELSE last.raised = NoneV /\ last.signal = NoSignal

\* C28: each of the first PERIOD ticks of a fresh strategy completes with
\* the neutral signal, calls nothing on the exchange and leaves the order
\* absent, and after n ticks the history holds n entries
C28_WarmUp ==
    (Ticked /\ steps <= PERIOD) =>
        /\ last.raised = NoneV
        /\ last.signal = NoSignal
        /\ last.calls.get_order = 0 /\ last.calls.cancel_order = 0
        /\ last.calls.buy = 0 /\ last.calls.sell = 0
        /\ last.calls.attempts = 0
        /\ strategies[1].order = NoneV
        /\ Len(strategies[1].order_book_imbalance) = steps

(***************************************************************************)
(* Claims about the balance lookup (SpecBalance)                           *)
(***************************************************************************)
\* the entry has the fields the lookup reads, for this currency: the
\* currency, and a balance that is a number
Usable(account, currency) ==
    /\ "currency" \in account.keys /\ account.currency = currency
    /\ "balance" \in account.keys /\ ~account.text

\* the positions of the usable entries of the list the lookup ran on
UsablePositions ==
    {i \in 1..Len(strategies[1].accounts) :
        Usable(strategies[1].accounts[i], last.currency)}

\* C21: the balance lookup returns the balance of the first entry of the
\* requested currency, entries without the fields it reads being skipped,
\* and None when no entry matches
C21_BalanceLookup ==
    last.op = "get_currency_balance" =>
        IF UsablePositions = {}
        THEN last.ret = NoneV
        ELSE \E i \in UsablePositions :
                /\ \A j \in UsablePositions : i <= j
                /\ last.ret = Dec(strategies[1].accounts[i].balance, 1)

\* an entry of the currency without balance comes first, then two entries
\* with different balances: the result is the balance of the second entry
C21_Witness ==
    /\ last.op = "get_currency_balance"
    /\ last.currency = "USD"
    /\ Len(strategies[1].accounts) = 3
    /\ strategies[1].accounts[1] = Account({"currency"}, "USD", 0)
    /\ Usable(strategies[1].accounts[2], "USD")
    /\ Usable(strategies[1].accounts[3], "USD")
    /\ strategies[1].accounts[2].balance # strategies[1].accounts[3].balance
    /\ last.ret = Dec(strategies[1].accounts[2].balance, 1)

(***************************************************************************)
(* The program under each of its entry points together: a decorated call   *)
(* (SpecRetry), the ticks of one strategy given data as time passes, and   *)
(* the trader's loop (SpecRun).  The three start from different states and *)
(* never meet: the decorator's harness holds a function, the strategy's    *)
(* holds one strategy outside run(), the trader's is inside run().         *)
(***************************************************************************)
InitLoad == InitRetry \/ InitStrategy \/ InitRun

\* strategy.next_data(...) and strategy.next(), with the signal computed or
\* mocked
NextTick == CallNextData \/ CallNext \/ CallNextMockedSignal \/ Advance

NextLoad ==
    \/ function # <<>> /\ NextRetry
    \/ function = <<>> /\ pc = "idle" /\ Len(strategies) = 1 /\ NextTick
    \/ NextRun

SpecLoad == InitLoad /\ [][NextLoad]_vars

(***************************************************************************)
(* Claims about _get_market_price (SpecPrice)                              *)
(***************************************************************************)
PriceAsked(signal) ==
    /\ last.op = "_get_market_price"
    /\ last.signal = signal
    /\ last.raised = NoneV

\* the price p is the greatest (dir = 1) or least (dir = -1) of the rows
Extreme(p, rows, dir) ==
    /\ \E i \in 1..Len(rows) : rows[i].price = p
    /\ \A i \in 1..Len(rows) : dir * rows[i].price <= dir * p

\* C31: for a BUY signal _get_market_price returns the maximum bid price of
\* the snapshot and for a SELL signal the minimum ask price, whether or not
\* an order is tracked; for no signal it returns the tracked order's price
\* when an order with a price is tracked and None when no order is tracked
C31_ReferencePrice ==
    /\ PriceAsked(BUY_SIGNAL) /\ strategies[1].bid_orders.rows # <<>> =>
          /\ last.ret # NoneV
          /\ last.ret.d = 1
          /\ Extreme(last.ret.n, strategies[1].bid_orders.rows, 1)
    /\ PriceAsked(SELL_SIGNAL) /\ strategies[1].ask_orders.rows # <<>> =>
          /\ last.ret # NoneV
          /\ last.ret.d = 1
          /\ Extreme(last.ret.n, strategies[1].ask_orders.rows, -1)
    /\ PriceAsked(NoSignal) /\ strategies[1].order = NoneV =>
          last.ret = NoneV
    /\ PriceAsked(NoSignal) /\ strategies[1].order # NoneV
            /\ "price" \in strategies[1].order.keys =>
          last.ret = strategies[1].order.price

\* the same for the snapshots whose price columns hold numbers
C31_NumericColumns ==
    (last.op = "_get_market_price" /\ ~strategies[1].bid_orders.text) =>
        C31_ReferencePrice

(***************************************************************************)
(* Claims about _order_book_to_df (SpecBook)                               *)
(***************************************************************************)
Converted == last.op = "_order_book_to_df"

\* the payload carries the side: the bids under 'bids', the asks under
\* the key the code reads or under the plural that matches 'bids'
Carries(order_book, side) ==
    IF side = "bids" THEN "bids" \in order_book.keys
    ELSE {"ask", "asks"} \cap order_book.keys # {}

\* the snapshot made of the rows after the header row
SnapshotOf(raw) == [tag |-> "df", rows |-> raw.rows, text |-> FALSE]

\* C32: for a payload carrying both sides, each side's snapshot is built
\* from the rows of that side after its first row; a side absent from the
\* payload gives an absent snapshot for that side only, nothing is raised
\* and the other side is still produced
C32_BookConversion ==
    Converted =>
        /\ Carries(last.order_book, "bids") /\ Carries(last.order_book, "asks") =>
              /\ last.raised = NoneV
              /\ last.bids = SnapshotOf(last.order_book.bids)
              /\ last.asks # NoneV
              /\ "ask" \in last.order_book.keys =>
                    last.asks = SnapshotOf(last.order_book.ask)
        /\ ~Carries(last.order_book, "bids") =>
              /\ last.raised = NoneV
              /\ last.bids = NoneV
              /\ Carries(last.order_book, "asks") => last.asks # NoneV
        /\ ~Carries(last.order_book, "asks") =>
              /\ last.raised = NoneV
              /\ last.asks = NoneV
              /\ Carries(last.order_book, "bids") => last.bids # NoneV

\* the same for the payloads that hold the asks under 'ask' if at all and
\* whose arrays all begin with a header row
C32_HeaderedSides ==
    (/\ Converted
     /\ "asks" \notin last.order_book.keys
     /\ "bids" \in last.order_book.keys => last.order_book.bids.header
     /\ "ask" \in last.order_book.keys => last.order_book.ask.header) =>
        C32_BookConversion

(***************************************************************************)
(* Claims about the trader's loop (SpecRun)                                *)
(***************************************************************************)
Iterated == last.op = "_run_iteration"

AccountsFailed ==
    /\ Iterated
    /\ last.fetches.accounts_raised # NoneV
    /\ last.fetches.accounts_raised.class \in TransientClasses

AccountsFetched == Iterated /\ last.fetches.accounts_raised = NoneV

\* the hooks of every strategy in registration order, next_data then next
AllVisited ==
    [k \in 1..(2 * NumStrategies) |->
        [call |-> IF k % 2 = 1 THEN "next_data" ELSE "next",
         strategy |-> (k + 1) \div 2]]

\* C7: when the account fetch fails transiently after its retries, the book
\* is not fetched, no strategy receives next_data or next, the iteration
\* returns False, no strategy changes and run() goes on to the sleep
C7_AccountFailureSkips ==
    AccountsFailed =>
        /\ last.fetches.get_accounts = 1
        /\ last.fetches.get_order_book = 0
        /\ last.fetches.events = <<>>
        /\ last.ret = "False"
        /\ last.raised = NoneV
        /\ strategies = last.before
        /\ pc # "crashed"

\* the accounts failed on all attempts and run() is about to sleep
C7_Witness ==
    /\ AccountsFailed
    /\ last.fetches.get_accounts = 1
    /\ last.ret = "False"
    /\ pc = "sleeping"

\* a payload that cannot be indexed, is the wrong container or has no
\* first element
MalformedPayload(p) ==
    \/ p = NoneV
    \/ p.tag = "book"
    \/ p.tag = "tuple" /\ p.items = <<>>

\* C8: when the book fetch fails transiently after its retries, or the
\* payload fetched is malformed, no strategy is invoked, the iteration
\* returns False, no exception leaves it and run() goes on to the sleep
C8_BookFailureSkips ==
    (/\ AccountsFetched
     /\ last.fetches.get_order_book = 1
     /\ \/ /\ last.fetches.book_raised # NoneV
           /\ last.fetches.book_raised.class \in TransientClasses
        \/ /\ last.fetches.book_raised = NoneV
           /\ MalformedPayload(last.fetches.payload)) =>
        /\ last.fetches.events = <<>>
        /\ last.ret = "False"
        /\ last.raised = NoneV
        /\ pc # "crashed"

\* a one-element tuple holding a dictionary with a bid side and an ask
\* side, each with its header row
WellFormedPayload(p) ==
    /\ p # NoneV /\ p.tag = "tuple" /\ Len(p.items) = 1
    /\ p.items[1].tag = "book"
    /\ {"bids", "ask"} \subseteq p.items[1].keys
    /\ p.items[1].bids.header /\ p.items[1].ask.header

\* C9: when both fetches succeed (with a well-formed book), each is made
\* once, every strategy receives next_data and then next, once each, in
\* registration order, and the iteration returns True
C9_AllStrategiesVisited ==
    (/\ AccountsFetched
     /\ last.fetches.get_order_book = 1
     /\ last.fetches.book_raised = NoneV
     /\ WellFormedPayload(last.fetches.payload)) =>
        /\ last.fetches.get_accounts = 1
        /\ last.fetches.events = AllVisited
        /\ last.ret = "True"

\* C10: the sleep computed after an iteration is FREQUENCY minus the
\* elapsed time since start_time modulo FREQUENCY, and it lies in
\* (0, FREQUENCY], however long the iteration took
C10_SleepFormula ==
    pc = "sleeping" =>
        /\ clock >= start_time
        /\ sleep_time + ((clock - start_time) % FREQUENCY) = FREQUENCY
        /\ 0 < sleep_time /\ sleep_time <= FREQUENCY

\* an iteration that ended more than a period after start_time, off the
\* schedule, is followed by a sleep shorter than the period
C10_Witness ==
    /\ pc = "sleeping"
    /\ clock - start_time > FREQUENCY
    /\ (clock - start_time) % FREQUENCY # 0
    /\ 0 < sleep_time /\ sleep_time < FREQUENCY

\* C11: with sleeps lasting the computed time, every iteration after the
\* first starts a whole number of periods after start_time, however long
\* the iterations took, and no sleep is longer than the period
C11_NoDrift ==
    /\ (pc = "run" /\ steps > 0) =>
          /\ clock > start_time
          /\ (clock - start_time) % FREQUENCY = 0
    /\ pc = "sleeping" => sleep_time <= FREQUENCY

\* the second iteration starts two periods after start_time: the first
\* lasted longer than a period and one multiple was skipped
C11_Witness ==
    /\ pc = "run"
    /\ steps = 1
    /\ clock - start_time = 2 * FREQUENCY

\* next() of strategy i was called in the last iteration
Visited(i) ==
    \E k \in 1..Len(last.fetches.events) :
        last.fetches.events[k] = [call |-> "next", strategy |-> i]

FetchExhausted ==
    /\ Iterated
    /\ \/ last.fetches.accounts_raised # NoneV
       \/ last.fetches.book_raised # NoneV

\* C30: run() does not end because of a failed or skipped iteration: after
\* an iteration whose fetch exhausted its retries the loop sleeps and then
\* starts the next iteration, and as long as the exchange calls return or
\* raise the loop goes on, so that every run attempts all the iterations
\* the model allows
C30_LoopLiveness ==
    /\ [](FetchExhausted => pc # "crashed")
    /\ (FetchExhausted /\ pc = "sleeping") ~> (pc = "run")
    /\ <>(steps = MaxIterations)

(***************************************************************************)
(* Claims about connection_retry (SpecRetry)                               *)
(***************************************************************************)
IsTransient(out) ==
    out.kind = "raise" /\ out.value.class \in TransientClasses

\* attempts 1..k-1 fail transiently
TransientBefore(k) == \A i \in 1..(k - 1) : IsTransient(function[i])

\* C1: if the operation fails transiently on attempts 1..k-1 and returns
\* on attempt k, for any k in 1..N, it is invoked k times, the sleep occurs
\* k times and the wrapper returns that value without raising
C1_SuccessOnAttemptK ==
    result.called =>
        \A k \in 1..max_retries :
            (TransientBefore(k) /\ function[k].kind = "return") =>
                /\ result.calls = k
                /\ result.sleeps = k
                /\ result.raised = NoneV
                /\ result.returned = function[k].value

\* C2: if all N attempts fail transiently, the operation is invoked N
\* times, the sleep occurs N times and the failure of attempt N is raised
C2_AllAttemptsFail ==
    (result.called /\ TransientBefore(max_retries + 1)) =>
        /\ result.calls = max_retries
        /\ result.sleeps = max_retries
        /\ result.raised = function[max_retries].value
        /\ result.returned = NoneV

C2_Witness ==
    /\ result.called
    /\ max_retries >= 2
    /\ TransientBefore(max_retries + 1)
    /\ function[1].value.class # function[max_retries].value.class
    /\ result.raised # NoneV

\* C19: a failure that is neither a connection error nor a decoding error
\* leaves the wrapper at once: when attempts 1..k-1 fail transiently and
\* attempt k raises such a failure, the operation is invoked k times (once
\* when k = 1), no attempt follows and that failure reaches the caller
C19_OtherFailurePropagates ==
    result.called =>
        \A k \in 1..max_retries :
            (/\ TransientBefore(k)
             /\ function[k].kind = "raise"
             /\ function[k].value.class = "ValueError") =>
                /\ result.calls = k
                /\ result.sleeps = k - 1
                /\ result.raised = function[k].value
                /\ result.returned = NoneV

\* the first attempt raises ValueError with retries left and a later
\* attempt that would have returned
C19_Witness ==
    /\ result.called
    /\ max_retries >= 2
    /\ function[1].kind = "raise" /\ function[1].value.class = "ValueError"
    /\ function[2].kind = "return"
    /\ result.calls = 1
    /\ result.raised = function[1].value

(***************************************************************************)
(* Claims about the load on the exchange (SpecLoad)                        *)
(***************************************************************************)
\* a method of the strategy has been called: last.calls counts its client
\* calls and their attempts
StrategyCalled == "calls" \in DOMAIN last

Polls == last.calls.get_order
Acts == last.calls.cancel_order + last.calls.buy + last.calls.sell

\* C33: a wrapped call attempts its operation at most max_retries times;
\* a strategy method makes at most one poll and at most one of cancel, buy
\* and sell, at most MAX_RETRIES attempts for each call and so at most
\* 2 * MAX_RETRIES; an iteration of the trader makes at most
\* 2 * MAX_RETRIES attempts for its two fetches and at most
\* 2 * MAX_RETRIES * (1 + S) with those of its S strategies
C33_BoundedLoad ==
    /\ result.called => result.calls <= max_retries
    /\ StrategyCalled =>
          /\ Polls <= 1
          /\ Acts <= 1
          /\ last.calls.attempts <= MAX_RETRIES * (Polls + Acts)
          /\ last.calls.attempts <= 2 * MAX_RETRIES
    /\ Iterated =>
          /\ last.fetches.get_accounts + last.fetches.get_order_book <= 2
          /\ last.fetches.attempts <=
                MAX_RETRIES * (last.fetches.get_accounts
                               + last.fetches.get_order_book)
          /\ last.fetches.strategy_attempts <=
                2 * MAX_RETRIES * Len(strategies)
          /\ last.fetches.attempts + last.fetches.strategy_attempts <=
                2 * MAX_RETRIES * (1 + Len(strategies))

\* a tick that polls a tracked order, answered at once as settled, and then
\* tries to buy, the client failing on every one of the MAX_RETRIES
\* attempts: the two calls and 1 + MAX_RETRIES attempts
C33_Witness ==
    /\ StrategyCalled
    /\ last.op = "next_step"
    /\ last.signal = BUY_SIGNAL
    /\ Polls = 1
    /\ last.calls.buy = 1
    /\ last.calls.attempts = 1 + MAX_RETRIES

====
